---- MODULE Spec2Model ----
(***************************************************************************)
(* Model of src/main.py: the WhatsApp webhook relay for SEVS eligibility   *)
(* questions.  The POST /webhook handler `inbound` is modelled as a state  *)
(* machine per invocation; `compose_reply` is modelled as an operator over *)
(* JSON values and is also exercised on its own under SpecCompose.         *)
(*                                                                         *)
(* JSON values are tagged records: t is the Python type the JSON decoder   *)
(* produces (null/bool/num/str/list/obj), and a raised exception is a      *)
(* value with t = "exc" that every operation propagates.                   *)
(*                                                                         *)
(* The module is ASCII only.  The source's typographic characters are      *)
(* written as: U+2019 (right quote) as ', U+2022 (bullet) as *,            *)
(* U+2014 (em dash) as --, U+2192 (arrow) as ->.                           *)
(***************************************************************************)
EXTENDS Integers, Sequences, FiniteSets, TLC

(***************************************************************************)
(* JSON values and the Python operations the code applies to them          *)
(***************************************************************************)
JNull == [t |-> "null"]
JBool(b) == [t |-> "bool", b |-> b]
JNum(n) == [t |-> "num", n |-> n]
JStr(s) == [t |-> "str", s |-> s]
JList(a) == [t |-> "list", a |-> a]
JObj(f) == [t |-> "obj", f |-> f]
EmptyObj == JObj(<<>>)
EmptyList == JList(<<>>)

Raise(kind, msg) == [t |-> "exc", kind |-> kind, msg |-> msg]
IsExc(v) == v.t = "exc"

\* type(v).__name__ as Python prints it in error messages
TypeName(v) ==
  CASE v.t = "null" -> "NoneType"
    [] v.t = "bool" -> "bool"
    [] v.t = "num" -> "int"
    [] v.t = "str" -> "str"
    [] v.t = "list" -> "list"
    [] v.t = "obj" -> "dict"
    [] OTHER -> "exception"

\* bool(v): Python truthiness, as used by `not x`, `x or y`, `if x`
Truthy(v) ==
  CASE v.t = "null" -> FALSE
    [] v.t = "bool" -> v.b
    [] v.t = "num" -> v.n # 0
    [] v.t = "str" -> v.s # ""
    [] v.t = "list" -> v.a # <<>>
    [] v.t = "obj" -> DOMAIN v.f # {}
    [] OTHER -> FALSE

\* v[k] for a string key k
GetItemKey(v, k) ==
  IF IsExc(v) THEN v
  ELSE IF v.t = "obj"
       THEN IF k \in DOMAIN v.f THEN v.f[k] ELSE Raise("KeyError", "'" \o k \o "'")
       ELSE IF v.t \in {"list", "str"}
            THEN Raise("TypeError", TypeName(v) \o " indices must be integers")
            ELSE Raise("TypeError", "'" \o TypeName(v) \o "' object is not subscriptable")

\* v[0]
GetItem0(v) ==
  IF IsExc(v) THEN v
  ELSE IF v.t = "list"
       THEN IF Len(v.a) > 0 THEN v.a[1] ELSE Raise("IndexError", "list index out of range")
       ELSE IF v.t = "str"
            THEN IF Len(v.s) > 0 THEN JStr(SubSeq(v.s, 1, 1))
                 ELSE Raise("IndexError", "string index out of range")
            ELSE IF v.t = "obj"
                 THEN Raise("KeyError", "0")
                 ELSE Raise("TypeError", "'" \o TypeName(v) \o "' object is not subscriptable")

\* v.get(k, default): only dicts have .get
Get(v, k, default) ==
  IF IsExc(v) THEN v
  ELSE IF v.t = "obj"
       THEN IF k \in DOMAIN v.f THEN v.f[k] ELSE default
       ELSE Raise("AttributeError", "'" \o TypeName(v) \o "' object has no attribute 'get'")

\* a or b (b is only looked at when a is falsy; an exception in a wins)
PyOr(a, b) == IF IsExc(a) THEN a ELSE IF Truthy(a) THEN a ELSE b

(***************************************************************************)
(* inbound, lines 111-120: resolving the webhook value and the message     *)
(***************************************************************************)
\* line 112: the probe of the conventional location, with the literal key "changes[0]"
PrimaryValue(payload) ==
  GetItemKey(GetItemKey(GetItem0(GetItemKey(payload, "entry")), "changes[0]"), "value")

\* line 114: the permissive extraction, outside the try block
FallbackValue(payload) ==
  Get(GetItem0(Get(GetItem0(Get(payload, "entry", JList(<<EmptyObj>>))),
                   "changes", JList(<<EmptyObj>>))),
      "value", EmptyObj)

\* lines 111-114: try the first, on any exception evaluate the second
ResolveEntry(payload) ==
  IF IsExc(PrimaryValue(payload)) THEN FallbackValue(payload) ELSE PrimaryValue(payload)

\* line 119
ExtractText(msg) ==
  PyOr(Get(Get(msg, "text", EmptyObj), "body", JNull),
       Get(Get(Get(msg, "interactive", EmptyObj), "nfm_reply", EmptyObj), "response_json", JNull))

\* lines 111-120 as a whole: what the handler has decided when it reaches line 122.
\* outcome "raise": an exception leaves the handler; "nothing": return {"ok": True};
\* "message": from_number and text are bound and the oracle is called next.
Ingress(payload) ==
  LET entry == ResolveEntry(payload)
      messages == Get(entry, "messages", EmptyList)
      msg == GetItem0(messages)
      from_number == GetItemKey(msg, "from")
      text == ExtractText(msg)
      Out(o, e, f, x) == [outcome |-> o, exc |-> e, from_number |-> f, text |-> x]
  IN IF IsExc(messages) THEN Out("raise", messages, JNull, JNull)
     ELSE IF ~Truthy(messages) THEN Out("nothing", JNull, JNull, JNull)
     ELSE IF IsExc(msg) THEN Out("raise", msg, JNull, JNull)
     ELSE IF IsExc(from_number) THEN Out("raise", from_number, JNull, JNull)
     ELSE IF IsExc(text) THEN Out("raise", text, JNull, JNull)
     ELSE IF ~Truthy(text) THEN Out("nothing", JNull, from_number, JNull)
     ELSE Out("message", JNull, from_number, text)

(***************************************************************************)
(* String helpers used by compose_reply                                    *)
(***************************************************************************)
\* str(v) as an f-string renders a scalar; containers are not rendered by the inputs below
PyStr(v) ==
  CASE v.t = "str" -> v.s
    [] v.t = "null" -> "None"
    [] v.t = "bool" -> IF v.b THEN "True" ELSE "False"
    [] v.t = "num" -> ToString(v.n)
    [] OTHER -> "<" \o TypeName(v) \o ">"

Whitespace == {" ", "\n", "\t"}

RECURSIVE LStrip(_)
LStrip(s) == IF Len(s) > 0 /\ SubSeq(s, 1, 1) \in Whitespace THEN LStrip(SubSeq(s, 2, Len(s))) ELSE s

RECURSIVE RStrip(_)
RStrip(s) ==
  IF Len(s) > 0 /\ SubSeq(s, Len(s), Len(s)) \in Whitespace THEN RStrip(SubSeq(s, 1, Len(s) - 1)) ELSE s

\* str.strip()
Strip(s) == RStrip(LStrip(s))

\* sep.join(strs) for a sequence of strings
RECURSIVE Join(_, _)
Join(strs, sep) ==
  IF Len(strs) = 0 THEN ""
  ELSE IF Len(strs) = 1 THEN strs[1]
  ELSE strs[1] \o sep \o Join(Tail(strs), sep)

\* seq[:n]
Take(seq, n) == SubSeq(seq, 1, IF Len(seq) < n THEN Len(seq) ELSE n)

\* the first exception among a sequence of values, or JNull when none raised
RECURSIVE FirstExc(_)
FirstExc(vals) ==
  IF Len(vals) = 0 THEN JNull
  ELSE IF IsExc(vals[1]) THEN vals[1] ELSE FirstExc(Tail(vals))

\* "\n".join / ", ".join over values computed in order: the first exception raised wins
JoinValues(vals, sep) ==
  IF IsExc(FirstExc(vals)) THEN FirstExc(vals)
  ELSE JStr(Join([j \in 1..Len(vals) |-> vals[j].s], sep))

(***************************************************************************)
(* compose_reply, lines 49-93                                              *)
(***************************************************************************)
RetrieveApology == "I couldn't retrieve SEVS data right now. Try again in a moment."
NoMatchMessage ==
  "No matching SEVS entry found. Share the variant or model code and build year/month and I'll re-check."
MultiHeader == "I found multiple matches:"
MultiFooter == "Tell me the specific variant or model code and I'll confirm."
NoReportLine == "No valid model report on record; compliance not currently possible."
ExpiringFlagLine == "Flag: expiring soon. Start compliance steps ASAP."
MultiLimit == 3
TopAltLimit == 5
RowAltLimit == 3

\* lines 56 and 91: f'{a.get("variant","?")} {a.get("model_code","")}'.strip()
RenderAlt(a) ==
  LET v == Get(a, "variant", JStr("?"))
      m == Get(a, "model_code", JStr(""))
  IN IF IsExc(v) THEN v
     ELSE JStr(Strip(PyStr(v) \o " " \o PyStr(m)))

\* x or {} followed by .get: the dict the code reads optional sub-fields from
OrEmptyObj(v) == PyOr(v, EmptyObj)

\* lines 62-66: one bullet of the multi-match summary
BulletLine(row) ==
  LET mr == OrEmptyObj(Get(row, "model_report", JNull))
      has == Get(mr, "has_report", JNull)
      head == "* " \o PyStr(Get(row, "make", JStr(""))) \o " " \o PyStr(Get(row, "model", JStr("")))
              \o " " \o PyStr(Get(row, "variant", JStr(""))) \o " "
              \o PyStr(Get(row, "model_code", JStr(""))) \o " -- "
      verdict == IF Truthy(Get(row, "eligible", JNull)) THEN "Eligible" ELSE "Not eligible"
      expires == IF Truthy(Get(row, "expires_on", JNull))
                 THEN "; expires " \o PyStr(row.f["expires_on"]) ELSE ""
      status == IF Truthy(has) THEN PyStr(Get(mr, "status", JStr("none"))) ELSE "none"
  IN IF row.t # "obj" THEN Get(row, "make", JStr(""))
     ELSE IF IsExc(has) THEN has
     ELSE JStr(head \o verdict \o expires \o "; MR " \o status)

\* the summary without the [:3] slice
MultiMatchAllRows(data) ==
  LET rows == data.a
      lines == <<JStr(MultiHeader)>> \o [j \in 1..Len(rows) |-> BulletLine(rows[j])]
               \o <<JStr(MultiFooter)>>
  IN JoinValues(lines, "\n")

\* lines 59-69
MultiMatch(data) ==
  LET rows == Take(data.a, MultiLimit)
      lines == <<JStr(MultiHeader)>> \o [j \in 1..Len(rows) |-> BulletLine(rows[j])]
               \o <<JStr(MultiFooter)>>
  IN JoinValues(lines, "\n")

\* the closest options listed without the [:5] slice
NoDataAllAlts(payload) ==
  LET alts == PyOr(Get(payload, "alternates", JNull), EmptyList)
      rendered == [j \in 1..Len(alts.a) |-> RenderAlt(alts.a[j])]
      alt_str == JoinValues(rendered, ", ")
  IN IF ~Truthy(alts) THEN JStr(NoMatchMessage)
     ELSE IF alts.t # "list" THEN Raise("AttributeError", "alternates is not a list of objects")
     ELSE IF IsExc(FirstExc(rendered)) THEN FirstExc(rendered)
     ELSE JStr("No exact match. Closest options: " \o alt_str.s
               \o ". Share the variant/model code and build year/month.")

\* lines 54-58: ok and no data
NoData(payload) ==
  LET alts == PyOr(Get(payload, "alternates", JNull), EmptyList)
      rendered == [j \in 1..Len(alts.a) |-> RenderAlt(alts.a[j])]
      alt_str == JoinValues(Take(rendered, TopAltLimit), ", ")
  IN IF ~Truthy(alts) THEN JStr(NoMatchMessage)
     ELSE IF alts.t # "list" THEN Raise("AttributeError", "alternates is not a list of objects")
     ELSE IF IsExc(FirstExc(rendered)) THEN FirstExc(rendered)
     ELSE JStr("No exact match. Closest options: " \o alt_str.s
               \o ". Share the variant/model code and build year/month.")

\* the flag line added whenever the row carries the key, whatever its value
FlagLinesOnKey(row) == IF "expiring_soon" \in DOMAIN row.f THEN <<JStr(ExpiringFlagLine)>> ELSE <<>>

\* line 80: the standalone flag line
FlagLines(row) ==
  IF Truthy(Get(row, "expiring_soon", JNull)) THEN <<JStr(ExpiringFlagLine)>> ELSE <<>>

\* the verdict block with the model-report line left out when there is no report
SingleRowSilentWithoutReport(row) ==
  LET verdict == IF Truthy(Get(row, "eligible", JNull)) THEN "Eligible" ELSE "Not eligible"
      reason == IF Truthy(Get(row, "eligibility_reason", JNull))
                THEN <<JStr("Reason: " \o PyStr(row.f["eligibility_reason"]) \o ".")>> ELSE <<>>
      bd == OrEmptyObj(Get(row, "build_date_match", JNull))
      bdcond == PyOr(Get(bd, "from", JNull), Get(bd, "to", JNull))
      window == IF IsExc(bdcond) THEN <<bdcond>>
                ELSE IF Truthy(bdcond)
                THEN <<JStr("Build window: " \o PyStr(Get(bd, "from", JStr("?"))) \o " -> "
                            \o PyStr(Get(bd, "to", JStr("?"))) \o ".")>>
                ELSE <<>>
      d == IF Get(row, "days_to_expiry", JNull).t # "null"
           THEN " (" \o PyStr(row.f["days_to_expiry"]) \o " days)" ELSE ""
      expiry == IF Truthy(Get(row, "expires_on", JNull))
                THEN <<JStr("SEVS entry expires " \o PyStr(row.f["expires_on"]) \o d \o ".")>>
                ELSE <<>>
      flag == IF Truthy(Get(row, "expiring_soon", JNull)) THEN <<JStr(ExpiringFlagLine)>> ELSE <<>>
      mr == OrEmptyObj(Get(row, "model_report", JNull))
      has == Get(mr, "has_report", JNull)
      s == "Model report: " \o PyStr(Get(mr, "status", JStr("unknown")))
           \o (IF Truthy(Get(mr, "mr_number", JNull)) THEN " -- " \o PyStr(mr.f["mr_number"]) ELSE "")
           \o (IF Truthy(Get(mr, "issuer", JNull)) THEN " (" \o PyStr(mr.f["issuer"]) \o ")" ELSE "")
      report == IF IsExc(has) THEN <<has>>
                ELSE IF Truthy(has) THEN <<JStr(s \o ".")>> ELSE <<>>
      alts == PyOr(Get(row, "alternates", JNull), EmptyList)
      shown == Take(alts.a, RowAltLimit)
      alt_str == JoinValues([j \in 1..Len(shown) |-> RenderAlt(shown[j])], ", ")
      altline == IF ~Truthy(alts) THEN <<>>
                 ELSE IF alts.t # "list"
                 THEN <<Raise("AttributeError", "alternates is not a list of objects")>>
                 ELSE IF IsExc(alt_str) THEN <<alt_str>>
                 ELSE <<JStr("Closest alternatives: " \o alt_str.s \o ".")>>
  IN IF row.t # "obj" THEN Get(row, "eligible", JNull)
     ELSE JoinValues(<<JStr("**" \o verdict \o "**")>> \o reason \o window \o expiry \o flag
                     \o report \o altline, "\n")

\* lines 70-93: the single-verdict block
SingleRow(row) ==
  LET verdict == IF Truthy(Get(row, "eligible", JNull)) THEN "Eligible" ELSE "Not eligible"
      reason == IF Truthy(Get(row, "eligibility_reason", JNull))
                THEN <<JStr("Reason: " \o PyStr(row.f["eligibility_reason"]) \o ".")>> ELSE <<>>
      bd == OrEmptyObj(Get(row, "build_date_match", JNull))
      bdcond == PyOr(Get(bd, "from", JNull), Get(bd, "to", JNull))
      window == IF IsExc(bdcond) THEN <<bdcond>>
                ELSE IF Truthy(bdcond)
                THEN <<JStr("Build window: " \o PyStr(Get(bd, "from", JStr("?"))) \o " -> "
                            \o PyStr(Get(bd, "to", JStr("?"))) \o ".")>>
                ELSE <<>>
      d == IF Get(row, "days_to_expiry", JNull).t # "null"
           THEN " (" \o PyStr(row.f["days_to_expiry"]) \o " days)" ELSE ""
      expiry == IF Truthy(Get(row, "expires_on", JNull))
                THEN <<JStr("SEVS entry expires " \o PyStr(row.f["expires_on"]) \o d \o ".")>>
                ELSE <<>>
      flag == FlagLines(row)
      mr == OrEmptyObj(Get(row, "model_report", JNull))
      has == Get(mr, "has_report", JNull)
      s == "Model report: " \o PyStr(Get(mr, "status", JStr("unknown")))
           \o (IF Truthy(Get(mr, "mr_number", JNull)) THEN " -- " \o PyStr(mr.f["mr_number"]) ELSE "")
           \o (IF Truthy(Get(mr, "issuer", JNull)) THEN " (" \o PyStr(mr.f["issuer"]) \o ")" ELSE "")
      report == IF IsExc(has) THEN <<has>>
                ELSE IF Truthy(has) THEN <<JStr(s \o ".")>> ELSE <<JStr(NoReportLine)>>
      alts == PyOr(Get(row, "alternates", JNull), EmptyList)
      shown == Take(alts.a, RowAltLimit)
      alt_str == JoinValues([j \in 1..Len(shown) |-> RenderAlt(shown[j])], ", ")
      altline == IF ~Truthy(alts) THEN <<>>
                 ELSE IF alts.t # "list"
                 THEN <<Raise("AttributeError", "alternates is not a list of objects")>>
                 ELSE IF IsExc(alt_str) THEN <<alt_str>>
                 ELSE <<JStr("Closest alternatives: " \o alt_str.s \o ".")>>
  IN IF row.t # "obj" THEN Get(row, "eligible", JNull)
     ELSE JoinValues(<<JStr("**" \o verdict \o "**")>> \o reason \o window \o expiry \o flag
                     \o report \o altline, "\n")

\* the ladder entered at the data test, `ok` looked at only when there is no data
compose_reply_data_first(payload) ==
  LET ok == Get(payload, "ok", JNull)
      data == Get(payload, "data", EmptyList)
  IN IF IsExc(ok) THEN ok
     ELSE IF ~Truthy(data) THEN (IF ~Truthy(ok) THEN JStr(RetrieveApology) ELSE NoData(payload))
     ELSE IF data.t # "list"
          THEN Raise("TypeError", "data of type " \o TypeName(data) \o " is not a list of rows")
     ELSE IF Len(data.a) > 1 THEN MultiMatch(data)
     ELSE SingleRow(data.a[1])

\* lines 49-93.  Returns the reply as a str value, or the exception the call raises.
compose_reply(payload) ==
  LET ok == Get(payload, "ok", JNull)
      data == Get(payload, "data", EmptyList)
  IN IF IsExc(ok) THEN ok
     ELSE IF ~Truthy(ok) THEN JStr(RetrieveApology)
     ELSE IF ~Truthy(data) THEN NoData(payload)
     ELSE IF data.t # "list"
          THEN Raise("TypeError", "data of type " \o TypeName(data) \o " is not a list of rows")
     ELSE IF Len(data.a) > 1 THEN MultiMatch(data)
     ELSE SingleRow(data.a[1])

(***************************************************************************)
(* The external collaborators: what each call can come back with           *)
(***************************************************************************)
\* json.loads on the argument strings the oracle is modelled to produce
ValidArgs == "{\"query_type\":\"vehicle_eligibility\",\"make\":\"Toyota\",\"model\":\"Hilux\"}"
TruncatedArgs == "{\"query_type\":\"vehicle_eligibility\",\"make\":"
\* a parse that swallows a decode failure into empty arguments
json_loads_lenient(str) ==
  CASE str = ValidArgs ->
         JObj([query_type |-> JStr("vehicle_eligibility"), make |-> JStr("Toyota"),
               model |-> JStr("Hilux")])
    [] str = "null" -> JNull
    [] OTHER -> EmptyObj

json_loads(str) ==
  CASE str = ValidArgs ->
         JObj([query_type |-> JStr("vehicle_eligibility"), make |-> JStr("Toyota"),
               model |-> JStr("Hilux")])
    [] str = "null" -> JNull
    [] OTHER -> Raise("JSONDecodeError", "Expecting value")

\* line 138
ClarifyPrompt == "Tell me the make/model/variant or model code, and build year/month."
\* line 136
ReachApology == "I couldn't reach the SEVS service. "

\* An HTTP exchange as `requests` reports it: the transport either fails
\* (exception from requests.post) or yields a status and a body.
HttpResult(transport, status, body) == [transport |-> transport, status |-> status, body |-> body]

\* lines 43-47
call_sevs(http) ==
  IF http.transport # "ok" THEN Raise("RequestException", http.transport)
  ELSE IF http.status >= 400 /\ http.status < 600
       THEN Raise("HTTPError", ToString(http.status) \o " Server Error")
       ELSE http.body

\* lines 95-100: returns None or raises
send_whatsapp_text(http) ==
  IF http.transport # "ok" THEN Raise("RequestException", http.transport)
  ELSE IF http.status >= 400 /\ http.status < 600
       THEN Raise("HTTPError", ToString(http.status) \o " Client Error")
       ELSE JNull

(***************************************************************************)
(* Bounded inputs                                                          *)
(***************************************************************************)
\* number of webhook invocations in flight together
NumInvocations == 2
\* longest `data` list and longest top-level `alternates` list given to compose_reply
MaxRows == 5
MaxAlts == 6

Invocations == 1..NumInvocations

Min(a, b) == IF a < b THEN a ELSE b

SenderA == "61400000001"
SenderB == "61400000002"
QuestionA == "Is a 2019 Toyota Hilux SR5 eligible?"
FlowReplyB == "{\"model_code\":\"BNR34\"}"

\* the platform's conventional shape: entry[0].changes[0].value = value
Conventional(value) ==
  JObj([entry |-> JList(<<JObj([changes |-> JList(<<JObj([value |-> value])>>)])>>)])
WithMessage(msg) == Conventional(JObj([messages |-> JList(<<msg>>)]))

TextMessage == JObj([from |-> JStr(SenderA), text |-> JObj([body |-> JStr(QuestionA)])])
FlowMessage ==
  JObj([from |-> JStr(SenderB),
        interactive |-> JObj([nfm_reply |-> JObj([response_json |-> JStr(FlowReplyB)])])])

\* decoded request bodies
Payloads ==
  { WithMessage(TextMessage),
    \* a payload that really carries the key "changes[0]" line 112 asks for
    JObj([entry |-> JList(<<JObj(("changes[0]" :> JObj([value |->
            JObj([messages |-> JList(<<FlowMessage>>)])])))>>)]),
    \* a status callback: value without `messages`
    Conventional(JObj([statuses |-> JList(<<JObj([status |-> JStr("read")])>>)])),
    \* `entry` missing, `entry` empty, `changes` empty, non-object payload, non-object value
    EmptyObj,
    JObj([entry |-> EmptyList]),
    JObj([entry |-> JList(<<JObj([changes |-> EmptyList])>>)]),
    EmptyList,
    Conventional(JNull),
    \* messages[0] without `from`: with a text, and with neither text nor interactive
    WithMessage(JObj([text |-> JObj([body |-> JStr(QuestionA)])])),
    WithMessage(JObj([type |-> JStr("image")])),
    \* messages[0] with `from` but no text: no text field, an empty body, text null
    WithMessage(JObj([from |-> JStr(SenderA), type |-> JStr("image")])),
    WithMessage(JObj([from |-> JStr(SenderA), text |-> JObj([body |-> JStr("")])])),
    WithMessage(JObj([from |-> JStr(SenderA), text |-> JNull])) }

\* request bodies: a body that is not JSON at all, or one that decodes to a payload
Bodies ==
  {[decodes |-> FALSE, json |-> JNull]} \cup {[decodes |-> TRUE, json |-> p] : p \in Payloads}

\* what client.chat.completions.create comes back with (lines 122-129)
OracleOutcome(kind, arguments, content) ==
  [kind |-> kind, arguments |-> arguments, content |-> content]
OracleOutcomes ==
  { OracleOutcome("error", "", JNull),
    OracleOutcome("tool", ValidArgs, JNull),
    OracleOutcome("tool", TruncatedArgs, JNull),
    OracleOutcome("direct", "", JStr("Which variant do you mean: SR or SR5?")),
    OracleOutcome("direct", "", JStr("")),
    OracleOutcome("direct", "", JNull) }

\* result rows
RowHilux ==
  JObj([make |-> JStr("Toyota"), model |-> JStr("Hilux"), variant |-> JStr("SR5"),
        model_code |-> JStr("GUN126R"), eligible |-> JBool(TRUE), expires_on |-> JNull])
RowSkyline ==
  JObj([make |-> JStr("Nissan"), model |-> JStr("Skyline"), variant |-> JStr("GT-R"),
        model_code |-> JStr("BNR34"), eligible |-> JBool(FALSE),
        model_report |-> JObj([has_report |-> JBool(FALSE)])])
AltPool ==
  << JObj([variant |-> JStr("RZ"), model_code |-> JStr("JZA80")]),
     JObj([variant |-> JStr("SZ"), model_code |-> JStr("JZA70")]),
     JObj([model_code |-> JStr("GA70")]),
     JObj([variant |-> JStr("GT")]),
     JObj([variant |-> JStr("RZ-S"), model_code |-> JStr("JZA81")]),
     JObj([variant |-> JStr("SZ-R"), model_code |-> JStr("JZA82")]),
     JObj([variant |-> JStr("GZ"), model_code |-> JStr("MA70")]),
     JObj([variant |-> JStr("GT-T"), model_code |-> JStr("JZA71")]) >>
RowSupra ==
  JObj([make |-> JStr("Toyota"), model |-> JStr("Supra"), variant |-> JStr("RZ"),
        model_code |-> JStr("JZA80"), eligible |-> JBool(TRUE),
        eligibility_reason |-> JStr("Listed on the SEVS register"),
        build_date_match |-> JObj([from |-> JStr("1993-05"), to |-> JStr("2002-08")]),
        expires_on |-> JStr("2026-12-31"), days_to_expiry |-> JNum(55),
        expiring_soon |-> JBool(TRUE),
        model_report |-> JObj([has_report |-> JBool(TRUE), status |-> JStr("approved"),
                               mr_number |-> JStr("MR-0042"), issuer |-> JStr("ACME RAW")]),
        alternates |-> JList(SubSeq(AltPool, 1, 4))])
RowWindowFrom ==
  JObj([make |-> JStr("Mazda"), model |-> JStr("RX-7"), variant |-> JStr("Type R"),
        model_code |-> JStr("FD3S"), eligible |-> JBool(FALSE),
        build_date_match |-> JObj([from |-> JStr("1999-01")]),
        expires_on |-> JStr("2027-01-31"),
        model_report |-> JObj([has_report |-> JBool(TRUE)])])

Absent == [t |-> "absent"]
\* an object from a function of keys to values; a key given as Absent is left out
Prune(f) == JObj([k \in {x \in DOMAIN f : f[x] # Absent} |-> f[k]])

\* single rows over the flags the verdict block branches on
ModelReports ==
  { Absent, JNull, JObj([has_report |-> JBool(FALSE)]), JObj([status |-> JStr("pending")]),
    JObj([has_report |-> JBool(TRUE), status |-> JStr("approved")]) }
FlagRows ==
  { Prune([make |-> JStr("Honda"), model |-> JStr("Beat"), variant |-> JStr("Version Z"),
           model_code |-> JStr("PP1"), eligible |-> JBool(e), expiring_soon |-> es,
           model_report |-> mr]) :
      e \in BOOLEAN, es \in {Absent, JBool(TRUE), JBool(FALSE)}, mr \in ModelReports }
\* single rows over the shapes of build_date_match
BuildWindows ==
  {Absent, JNull}
    \cup { Prune([from |-> f, to |-> t]) :
             f \in {Absent, JNull, JStr("1999-01")}, t \in {Absent, JNull, JStr("2002-08")} }
WindowRows ==
  { Prune([make |-> JStr("Mazda"), model |-> JStr("RX-7"), variant |-> JStr("Type RS"),
           model_code |-> JStr("FD3S"), eligible |-> JBool(TRUE), build_date_match |-> bd,
           model_report |-> JObj([has_report |-> JBool(TRUE), status |-> JStr("approved")])]) :
      bd \in BuildWindows }

MultiRows == {RowHilux, RowSkyline, RowSupra}
Rows == MultiRows \cup {RowWindowFrom} \cup FlagRows \cup WindowRows
\* an envelope; a key given as Absent is left out
Envelope(ok, data, alternates) ==
  JObj([k \in {"ok"} \cup (IF data = Absent THEN {} ELSE {"data"})
              \cup (IF alternates = Absent THEN {} ELSE {"alternates"}) |->
          CASE k = "ok" -> ok
            [] k = "data" -> data
            [] OTHER -> alternates])

DataLists ==
  {JList(rs) : rs \in UNION {[1..n -> MultiRows] : n \in 0..MaxRows}}
    \cup {JList(<<r>>) : r \in Rows} \cup {Absent}
AltLists == {JList(SubSeq(AltPool, 1, n)) : n \in 0..MaxAlts} \cup {Absent, JNull}
Envelopes ==
  {Envelope(JBool(ok), data, alts) : ok \in BOOLEAN, data \in DataLists, alts \in AltLists}

\* bodies the backend answers with under the handler: envelopes, and JSON that is no envelope
BackendBodies ==
  { Envelope(JBool(FALSE), EmptyList, Absent),
    Envelope(JBool(TRUE), JList(<<RowHilux>>), Absent),
    EmptyList,
    Raise("JSONDecodeError", "Expecting value: line 1 column 1 (char 0)") }
BackendResults ==
  { HttpResult("Read timed out. (read timeout=30)", 0, JNull),
    HttpResult("ok", 503, JNull) }
    \cup {HttpResult("ok", 200, b) : b \in BackendBodies}
SendResults ==
  { HttpResult("ok", 200, JNull),
    HttpResult("ok", 401, JNull),
    HttpResult("Read timed out. (read timeout=30)", 0, JNull) }

\* lines 7-11: the environment the process starts with
VerifyTokenA == "s3cret-verify"
VerifyTokenB == "0ther-verify"
EnvironmentWith(verify_token) ==
  [OPENAI_API_KEY |-> "sk-test", SUPABASE_URL |-> "https://sevs.example",
   SUPABASE_KEY |-> "sb-test", WHATSAPP_TOKEN |-> "wa-test", VERIFY_TOKEN |-> verify_token]
Environment == EnvironmentWith(VerifyTokenA)
Environments == {EnvironmentWith(VerifyTokenA), EnvironmentWith(VerifyTokenB)}

\* line 103: the query parameters of a GET /webhook; None when the parameter is not given
Modes == {JNull, JStr("subscribe"), JStr("unsubscribe"), JStr("Subscribe")}
Tokens == {JNull, JStr(""), JStr(VerifyTokenA), JStr(VerifyTokenB)}
Challenges ==
  {JNull, JStr(""), JStr("12345"), JStr("007"), JStr("0"), JStr("abc"), JStr("12a"),
   JStr("-5"), JStr(" 42"), JStr("1158201444")}
VerifyRequests ==
  {[mode |-> m, challenge |-> c, token |-> t] : m \in Modes, c \in Challenges, t \in Tokens}

(***************************************************************************)
(* State                                                                   *)
(***************************************************************************)
VARIABLES
  pc,            \* per invocation: where the handler is
  body,          \* per invocation: the request body delivered
  from_number,   \* per invocation: local of inbound (line 118)
  text,          \* per invocation: local of inbound (line 119)
  message,       \* per invocation: local of inbound (line 128), the oracle's answer
  args,          \* per invocation: local of inbound (line 131)
  reply_text,    \* per invocation: local of inbound (lines 134-138)
  response,      \* per invocation: "none", "ok" ({"ok": True}, 200) or "error" (framework 500)
  raised,        \* per invocation: the exception that left the handler, or JNull
  oracle_calls,  \* per invocation: the user texts sent to the oracle, in order
  backend_calls, \* per invocation: the queries posted to the backend, with their outcome
  send_calls,    \* per invocation: the messages handed to the transport, with their outcome
  log,           \* per invocation: what the handler printed (line 142)
  envelope,      \* SpecCompose: the envelope given to compose_reply
  composed,      \* SpecCompose: what compose_reply returned for it, or Absent before the call
  config,        \* the module-level configuration read from the environment (lines 7-11)
  request,       \* SpecVerify: the query parameters of the GET /webhook
  verified       \* SpecVerify: what verify returned for them, or Absent before the call

vars == <<pc, body, from_number, text, message, args, reply_text, response, raised,
          oracle_calls, backend_calls, send_calls, log, envelope, composed,
          config, request, verified>>

NoBody == [decodes |-> FALSE, json |-> Absent]
NoMessage == OracleOutcome("none", "", JNull)

InitHandler ==
  /\ pc = [i \in Invocations |-> "Idle"]
  /\ body = [i \in Invocations |-> NoBody]
  /\ from_number = [i \in Invocations |-> JNull]
  /\ text = [i \in Invocations |-> JNull]
  /\ message = [i \in Invocations |-> NoMessage]
  /\ args = [i \in Invocations |-> JNull]
  /\ reply_text = [i \in Invocations |-> JNull]
  /\ response = [i \in Invocations |-> "none"]
  /\ raised = [i \in Invocations |-> JNull]
  /\ oracle_calls = [i \in Invocations |-> <<>>]
  /\ backend_calls = [i \in Invocations |-> <<>>]
  /\ send_calls = [i \in Invocations |-> <<>>]
  /\ log = [i \in Invocations |-> <<>>]

Init ==
  /\ InitHandler
  /\ envelope = Absent
  /\ composed = Absent
  /\ config = Environment
  /\ request = Absent
  /\ verified = Absent

(***************************************************************************)
(* inbound, lines 108-143, one action per stretch between two suspensions  *)
(***************************************************************************)
\* an exception that leaves the invocation suspended where it was raised, never ended
FailStranded(i, e) ==
  /\ pc' = [pc EXCEPT ![i] = "Raised"]
  /\ raised' = [raised EXCEPT ![i] = e]
  /\ UNCHANGED response

\* an exception leaves the handler: the framework answers with its error response
Fail(i, e) ==
  /\ pc' = [pc EXCEPT ![i] = "Done"]
  /\ raised' = [raised EXCEPT ![i] = e]
  /\ response' = [response EXCEPT ![i] = "error"]

\* return {"ok": True}
ReturnOk(i) ==
  /\ pc' = [pc EXCEPT ![i] = "Done"]
  /\ response' = [response EXCEPT ![i] = "ok"]
  /\ UNCHANGED raised

\* the handler keeping the sender in one module-level name that every invocation shares
IngestSharedSender(i) ==
  /\ pc[i] = "Idle"
  /\ \E b \in Bodies :
       /\ body' = [body EXCEPT ![i] = b]
       /\ IF ~b.decodes
          THEN /\ Fail(i, Raise("JSONDecodeError", "Expecting value"))
               /\ UNCHANGED <<from_number, text>>
          ELSE LET r == Ingress(b.json)
               IN CASE r.outcome = "raise" ->
                         /\ Fail(i, r.exc)
                         /\ UNCHANGED <<from_number, text>>
                    [] r.outcome = "nothing" ->
                         /\ ReturnOk(i)
                         /\ from_number' = [from_number EXCEPT ![i] = r.from_number]
                         /\ UNCHANGED text
                    [] OTHER ->
                         /\ pc' = [pc EXCEPT ![i] = "Ingested"]
                         /\ from_number' = [j \in Invocations |-> r.from_number]
                         /\ text' = [text EXCEPT ![i] = r.text]
                         /\ UNCHANGED <<response, raised>>
  /\ UNCHANGED <<message, args, reply_text, oracle_calls, backend_calls, send_calls, log,
                 envelope, composed,
                 config, request, verified>>

\* lines 108-120: a POST /webhook reaches the handler, which decodes the body,
\* resolves the value and reads messages[0]
Ingest(i) ==
  /\ pc[i] = "Idle"
  /\ \E b \in Bodies :
       /\ body' = [body EXCEPT ![i] = b]
       /\ IF ~b.decodes
          THEN /\ Fail(i, Raise("JSONDecodeError", "Expecting value"))
               /\ UNCHANGED <<from_number, text>>
          ELSE LET r == Ingress(b.json)
               IN CASE r.outcome = "raise" ->
                         /\ Fail(i, r.exc)
                         /\ UNCHANGED <<from_number, text>>
                    [] r.outcome = "nothing" ->
                         /\ ReturnOk(i)
                         /\ from_number' = [from_number EXCEPT ![i] = r.from_number]
                         /\ UNCHANGED text
                    [] OTHER ->
                         /\ pc' = [pc EXCEPT ![i] = "Ingested"]
                         /\ from_number' = [from_number EXCEPT ![i] = r.from_number]
                         /\ text' = [text EXCEPT ![i] = r.text]
                         /\ UNCHANGED <<response, raised>>
  /\ UNCHANGED <<message, args, reply_text, oracle_calls, backend_calls, send_calls, log,
                 envelope, composed,
                 config, request, verified>>

\* the direct answer passed on without the fallback for an empty one
DirectReplyNoFallback(content) == content

\* line 138: message.content or the fixed clarification prompt
DirectReply(content) == PyOr(content, JStr(ClarifyPrompt))

\* lines 122-131 and 137-138: the oracle call and what the handler makes of its answer
Extract(i) ==
  /\ pc[i] = "Ingested"
  /\ oracle_calls' = [oracle_calls EXCEPT ![i] = Append(@, text[i])]
  /\ \E o \in OracleOutcomes :
       CASE o.kind = "error" ->
              /\ Fail(i, Raise("APIConnectionError", "Connection error."))
              /\ UNCHANGED <<message, args, reply_text>>
         [] o.kind = "tool" ->
              /\ message' = [message EXCEPT ![i] = o]
              /\ LET parsed == json_loads(o.arguments)
                 IN IF IsExc(parsed)
                    THEN /\ Fail(i, parsed)
                         /\ UNCHANGED <<args, reply_text>>
                    ELSE /\ pc' = [pc EXCEPT ![i] = "Extracted"]
                         /\ args' = [args EXCEPT ![i] = parsed]
                         /\ UNCHANGED <<reply_text, response, raised>>
         [] OTHER ->
              /\ message' = [message EXCEPT ![i] = o]
              /\ pc' = [pc EXCEPT ![i] = "DirectAnswer"]
              /\ reply_text' = [reply_text EXCEPT ![i] = DirectReply(o.content)]
              /\ UNCHANGED <<args, response, raised>>
  /\ UNCHANGED <<body, from_number, text, backend_calls, send_calls, log, envelope, composed,
                 config, request, verified>>

\* the except branch answering with the composer's fixed apology instead of the error detail
QueryReplyNoDetail(http) ==
  LET data == call_sevs(http)
      reply == compose_reply(data)
  IN IF IsExc(data) \/ IsExc(reply) THEN JStr(RetrieveApology) ELSE reply

\* lines 132-136: the backend query and the composition of the reply, inside one try block
QueryReply(http) ==
  LET data == call_sevs(http)
      reply == compose_reply(data)
  IN IF IsExc(data) THEN JStr(ReachApology \o data.msg)
     ELSE IF IsExc(reply) THEN JStr(ReachApology \o reply.msg)
     ELSE reply

\* the backend query with one more attempt after a failed one
QueryWithRetry(i) ==
  /\ pc[i] = "Extracted"
  /\ \E first, http \in BackendResults :
       LET attempts == IF IsExc(call_sevs(first)) THEN <<first, http>> ELSE <<first>>
       IN /\ backend_calls' = [backend_calls EXCEPT ![i] =
                                 [k \in 1..Len(attempts) |->
                                    [query |-> args[i], result |-> call_sevs(attempts[k])]]]
          /\ reply_text' = [reply_text EXCEPT ![i] = QueryReply(attempts[Len(attempts)])]
  /\ pc' = [pc EXCEPT ![i] = "Composed"]
  /\ UNCHANGED <<body, from_number, text, message, args, response, raised, oracle_calls,
                 send_calls, log, envelope, composed,
                 config, request, verified>>

Query(i) ==
  /\ pc[i] = "Extracted"
  /\ \E http \in BackendResults :
       /\ backend_calls' = [backend_calls EXCEPT ![i] =
                              Append(@, [query |-> args[i], result |-> call_sevs(http)])]
       /\ reply_text' = [reply_text EXCEPT ![i] = QueryReply(http)]
  /\ pc' = [pc EXCEPT ![i] = "Composed"]
  /\ UNCHANGED <<body, from_number, text, message, args, response, raised, oracle_calls,
                 send_calls, log, envelope, composed,
                 config, request, verified>>

\* the send without its try block: a failure leaves the handler
SendUncaught(i) ==
  /\ pc[i] \in {"Composed", "DirectAnswer"}
  /\ \E http \in SendResults :
       LET r == send_whatsapp_text(http)
       IN /\ send_calls' = [send_calls EXCEPT ![i] =
                              Append(@, [to |-> from_number[i], body |-> reply_text[i],
                                         failed |-> IsExc(r)])]
          /\ IF IsExc(r) THEN Fail(i, r) ELSE ReturnOk(i)
  /\ UNCHANGED <<body, from_number, text, message, args, reply_text, oracle_calls,
                 backend_calls, log, envelope, composed,
                 config, request, verified>>

\* lines 139-143: the outbound send, its failure printed, and the acknowledgement
Send(i) ==
  /\ pc[i] \in {"Composed", "DirectAnswer"}
  /\ \E http \in SendResults :
       LET r == send_whatsapp_text(http)
       IN /\ send_calls' = [send_calls EXCEPT ![i] =
                              Append(@, [to |-> from_number[i], body |-> reply_text[i],
                                         failed |-> IsExc(r)])]
          /\ log' = [log EXCEPT ![i] = IF IsExc(r) THEN Append(@, "Send error: " \o r.msg) ELSE @]
  /\ ReturnOk(i)
  /\ UNCHANGED <<body, from_number, text, message, args, reply_text, oracle_calls,
                 backend_calls, envelope, composed,
                 config, request, verified>>

Next == \E i \in Invocations : Ingest(i) \/ Extract(i) \/ Query(i) \/ Send(i)

Spec == Init /\ [][Next]_vars

\* the handler with every awaited external call eventually returning or failing: the
\* oracle call (line 122), the backend query (line 45) and the send (line 99, which has a
\* timeout) each end, so an invocation that can take its next step does take it
SpecLive ==
  /\ Init
  /\ [][Next]_vars
  /\ \A i \in Invocations : WF_vars(Extract(i)) /\ WF_vars(Query(i)) /\ WF_vars(Send(i))

(***************************************************************************)
(* compose_reply on its own: every bounded envelope, one call each         *)
(***************************************************************************)
InitCompose ==
  /\ InitHandler
  /\ envelope \in Envelopes
  /\ composed = Absent
  /\ config = Environment
  /\ request = Absent
  /\ verified = Absent

Compose ==
  /\ composed = Absent
  /\ composed' = compose_reply(envelope)
  /\ UNCHANGED <<envelope, pc, body, from_number, text, message, args, reply_text, response, raised,
                 oracle_calls, backend_calls, send_calls, log, config, request, verified>>

NextCompose == Compose

SpecCompose == InitCompose /\ [][NextCompose]_vars

(***************************************************************************)
(* verify, lines 102-106                                                   *)
(***************************************************************************)
\* the decimal digits; str.isdigit also accepts digit characters outside ASCII,
\* which the challenges drawn here do not contain
Digits == <<"0", "1", "2", "3", "4", "5", "6", "7", "8", "9">>
IsDigit(c) == \E d \in 1..Len(Digits) : Digits[d] = c
DigitValue(c) == (CHOOSE d \in 1..Len(Digits) : Digits[d] = c) - 1

\* str.isdigit: every character is a digit and there is at least one
isdigit(s) == s # "" /\ \A j \in 1..Len(s) : IsDigit(SubSeq(s, j, j))

\* int(s) for a string of digits
RECURSIVE int(_)
int(s) ==
  IF s = "" THEN 0
  ELSE 10 * int(SubSeq(s, 1, Len(s) - 1)) + DigitValue(SubSeq(s, Len(s), Len(s)))

\* the handler answering a matching token whatever the mode
verify_any_mode(mode, challenge, token) ==
  IF token = JStr(config.VERIFY_TOKEN)
  THEN IF Truthy(challenge) /\ isdigit(challenge.s)
       THEN JNum(int(challenge.s))
       ELSE PyOr(challenge, JStr(""))
  ELSE JStr("forbidden")

\* lines 103-106
verify(mode, challenge, token) ==
  IF mode = JStr("subscribe") /\ token = JStr(config.VERIFY_TOKEN)
  THEN IF Truthy(challenge) /\ isdigit(challenge.s)
       THEN JNum(int(challenge.s))
       ELSE PyOr(challenge, JStr(""))
  ELSE JStr("forbidden")

InitVerify ==
  /\ InitHandler
  /\ envelope = Absent
  /\ composed = Absent
  /\ config \in Environments
  /\ request \in VerifyRequests
  /\ verified = Absent

Verify ==
  /\ verified = Absent
  /\ verified' = verify(request.mode, request.challenge, request.token)
  /\ UNCHANGED <<request, config, envelope, composed, pc, body, from_number, text, message, args,
                 reply_text, response, raised, oracle_calls, backend_calls, send_calls, log>>

NextVerify == Verify

SpecVerify == InitVerify /\ [][NextVerify]_vars

(***************************************************************************)
(* Properties                                                              *)
(***************************************************************************)
\* the lines of a text, split at "\n"
RECURSIVE Lines(_)
Lines(s) ==
  LET breaks == {j \in 1..Len(s) : SubSeq(s, j, j) = "\n"}
  IN IF breaks = {} THEN <<s>>
     ELSE LET j == CHOOSE m \in breaks : \A n \in breaks : m <= n
          IN <<SubSeq(s, 1, j - 1)>> \o Lines(SubSeq(s, j + 1, Len(s)))

\* messages[0] of the resolved webhook value of a delivered body
FirstMessage(i) == GetItem0(Get(ResolveEntry(body[i].json), "messages", EmptyList))
\* the resolved value is an object without a `messages` key
NoMessagesEntry(i) ==
  /\ ResolveEntry(body[i].json).t = "obj"
  /\ "messages" \notin DOMAIN ResolveEntry(body[i].json).f
\* key k of object v holds an object
HasObj(v, k) == v.t = "obj" /\ k \in DOMAIN v.f /\ v.f[k].t = "obj"
\* messages[0] is an object that holds neither text.body nor interactive.nfm_reply.response_json
NoTextInMessage(i) ==
  LET msg == FirstMessage(i)
  IN /\ msg.t = "obj"
     /\ ~(HasObj(msg, "text") /\ "body" \in DOMAIN msg.f["text"].f)
     /\ ~(/\ HasObj(msg, "interactive")
          /\ HasObj(msg.f["interactive"], "nfm_reply")
          /\ "response_json" \in DOMAIN msg.f["interactive"].f["nfm_reply"].f)
NoExternalCalls(i) ==
  oracle_calls[i] = <<>> /\ backend_calls[i] = <<>> /\ send_calls[i] = <<>>

\* C1: every delivery whose body decodes as JSON is answered {"ok": true}, on every
\* path: message without `from`, failing oracle call, malformed tool-call arguments,
\* failing backend call, failing send.
C1_AlwaysAcknowledged ==
  \A i \in Invocations : (pc[i] = "Done" /\ body[i].decodes) => response[i] = "ok"

\* C2: when the resolved value has no `messages` entry, or messages[0] carries
\* neither text.body nor an interactive-reply response field, the invocation ends
\* with no oracle call, no backend call, no send, and the response {"ok": true}.
C2_NothingToDoIsSilentAndAcknowledged ==
  \A i \in Invocations :
    (pc[i] # "Idle" /\ body[i].decodes
       /\ (NoMessagesEntry(i) \/ NoTextInMessage(i)))
    => (pc[i] = "Done" /\ NoExternalCalls(i) /\ response[i] = "ok")

\* C3: when the oracle elected the tool call and the backend query failed, the
\* backend is queried once only, the reply is "I couldn't reach the SEVS service. "
\* followed by the error detail, and exactly one send of it goes to the sender.
C3_BackendFailureApology ==
  \A i \in Invocations :
    (backend_calls[i] # <<>> /\ IsExc(backend_calls[i][1].result)) =>
      /\ message[i].kind = "tool"
      /\ Len(backend_calls[i]) = 1
      /\ reply_text[i] = JStr("I couldn't reach the SEVS service. "
                              \o backend_calls[i][1].result.msg)
      /\ pc[i] \in {"Composed", "Done"}
      /\ pc[i] = "Composed" => send_calls[i] = <<>>
      /\ pc[i] = "Done" =>
           /\ Len(send_calls[i]) = 1
           /\ send_calls[i][1].to = from_number[i]
           /\ send_calls[i][1].body = reply_text[i]
           /\ from_number[i] = FirstMessage(i).f["from"]
C3_Witness ==
  \E i \in Invocations :
    /\ pc[i] = "Done"
    /\ backend_calls[i] # <<>>
    /\ IsExc(backend_calls[i][1].result)
    /\ backend_calls[i][1].result.msg = "Read timed out. (read timeout=30)"
    /\ Len(send_calls[i]) = 1

\* C4: when the outbound send fails the failure is caught and logged, the send is
\* not retried, the invocation is Done and the response is {"ok": true}, as it is
\* when the send succeeds.
C4_SendFailureInvisible ==
  \A i \in Invocations :
    send_calls[i] # <<>> =>
      /\ Len(send_calls[i]) = 1
      /\ pc[i] = "Done"
      /\ response[i] = "ok"
      /\ raised[i] = JNull
      /\ send_calls[i][1].failed => (Len(log[i]) = 1 /\ SubSeq(log[i][1], 1, 11) = "Send error:")
      /\ ~send_calls[i][1].failed => log[i] = <<>>
C4_Witness ==
  \E i \in Invocations :
    /\ send_calls[i] # <<>>
    /\ send_calls[i][1].failed
    /\ pc[i] = "Done"
    /\ response[i] = "ok"

\* C5: message ingress never lets a parse or shape error out: for every JSON
\* payload it yields an InboundMessage or "nothing to do".
C5_IngressNeverRaises ==
  \A i \in Invocations :
    (pc[i] = "Done" /\ body[i].decodes /\ oracle_calls[i] = <<>>) => raised[i] = JNull

\* C6: when messages[0] exists but has no `from`, the invocation ends without an
\* error raised out of the handler and makes no oracle call, backend call or send.
C6_MissingFromDropped ==
  \A i \in Invocations :
    (pc[i] # "Idle" /\ body[i].decodes
       /\ FirstMessage(i).t = "obj" /\ "from" \notin DOMAIN FirstMessage(i).f)
    => (pc[i] = "Done" /\ raised[i] = JNull /\ NoExternalCalls(i))

\* C7: when the oracle elects the tool call with an arguments string that is not
\* valid JSON, the failure is surfaced with no retry: one oracle call, no backend
\* query, no reply composed, no send.
C7_MalformedArgumentsSurfaced ==
  \A i \in Invocations :
    (message[i].kind = "tool" /\ message[i].arguments = TruncatedArgs) =>
      /\ pc[i] = "Done"
      /\ raised[i].t = "exc"
      /\ response[i] = "error"
      /\ Len(oracle_calls[i]) = 1
      /\ backend_calls[i] = <<>>
      /\ reply_text[i] = JNull
      /\ send_calls[i] = <<>>
C7_Witness ==
  \E i \in Invocations :
    /\ message[i].kind = "tool"
    /\ message[i].arguments = TruncatedArgs
    /\ pc[i] = "Done"
    /\ raised[i].t = "exc"

\* C8: when the oracle answers directly, the backend is never queried and the
\* reply sent is the oracle's text, or the fixed clarification prompt when that
\* text is empty or absent.
C8_DirectAnswer ==
  \A i \in Invocations :
    message[i].kind = "direct" =>
      /\ backend_calls[i] = <<>>
      /\ reply_text[i] =
           (IF message[i].content.t = "str" /\ message[i].content.s # ""
            THEN message[i].content
            ELSE JStr("Tell me the make/model/variant or model code, and build year/month."))
      /\ pc[i] \in {"DirectAnswer", "Done"}
      /\ pc[i] = "Done" =>
           /\ Len(send_calls[i]) = 1
           /\ send_calls[i][1].to = from_number[i]
           /\ send_calls[i][1].body = reply_text[i]
C8_Witness ==
  \E i \in Invocations :
    /\ message[i].kind = "direct"
    /\ message[i].content = JStr("")
    /\ pc[i] = "Done"
    /\ Len(send_calls[i]) = 1
    /\ send_calls[i][1].body = JStr(ClarifyPrompt)

\* the envelope given to compose_reply has `ok` = b
EnvelopeOk(b) == envelope.t = "obj" /\ "ok" \in DOMAIN envelope.f /\ envelope.f["ok"] = JBool(b)
\* its `data` is a list of at least n rows
DataAtLeast(n) ==
  /\ "data" \in DOMAIN envelope.f
  /\ envelope.f["data"].t = "list"
  /\ Len(envelope.f["data"].a) >= n

\* C9: for every envelope with ok=false compose_reply returns exactly the fixed
\* "I couldn't retrieve SEVS data right now. Try again in a moment.", whatever
\* `data` and `alternates` contain.
C9_NotOkFixedMessage ==
  (composed # Absent /\ EnvelopeOk(FALSE)) =>
    composed = JStr("I couldn't retrieve SEVS data right now. Try again in a moment.")
C9_Witness ==
  /\ composed # Absent
  /\ EnvelopeOk(FALSE)
  /\ DataAtLeast(2)
  /\ "alternates" \in DOMAIN envelope.f
  /\ Truthy(envelope.f["alternates"])
  /\ composed = JStr(RetrieveApology)

\* C10: for every envelope with ok=true and len(data)=k>1 the output is the header
\* line "I found multiple matches:", then exactly min(k,3) bullet lines for the
\* first min(k,3) rows in input order, then the closing prompt line.
C10_MultiMatchBullets ==
  (composed # Absent /\ EnvelopeOk(TRUE) /\ DataAtLeast(2)) =>
    LET data == envelope.f["data"].a
        shown == Min(Len(data), 3)
        out == Lines(composed.s)
    IN /\ composed.t = "str"
       /\ Len(out) = shown + 2
       /\ out[1] = "I found multiple matches:"
       /\ \A j \in 1..shown :
            /\ out[j + 1] = BulletLine(data[j]).s
            /\ SubSeq(out[j + 1], 1, 2) = "* "
       /\ out[shown + 2] = MultiFooter
C10_Witness ==
  /\ composed # Absent
  /\ EnvelopeOk(TRUE)
  /\ DataAtLeast(5)
  /\ Len(Lines(composed.s)) = 5
  /\ Lines(composed.s)[4] = BulletLine(envelope.f["data"].a[3]).s

\* the envelope's `data` is absent or an empty list
DataEmpty == "data" \notin DOMAIN envelope.f \/ envelope.f["data"] = EmptyList
\* the entries of the envelope's top-level `alternates`, none when absent or null
TopAlternates ==
  IF "alternates" \in DOMAIN envelope.f /\ envelope.f["alternates"].t = "list"
  THEN envelope.f["alternates"].a ELSE <<>>
\* "{variant} {model_code}" for an entry that has both; what the code renders otherwise
AltText(a) ==
  IF {"variant", "model_code"} \subseteq DOMAIN a.f
  THEN a.f["variant"].s \o " " \o a.f["model_code"].s
  ELSE RenderAlt(a).s

\* C11: for every envelope with ok=true and empty data the output depends only on
\* top-level `alternates`: the fixed "no matching entry" message when it is empty
\* or absent, else the first min(n,5) entries in order as "{variant} {model_code}"
\* joined by ", " between the "No exact match. Closest options: " prefix and the
\* request suffix.
C11_NoDataAlternates ==
  (composed # Absent /\ EnvelopeOk(TRUE) /\ DataEmpty) =>
    LET alts == TopAlternates
        shown == Min(Len(alts), 5)
    IN composed =
         (IF Len(alts) = 0
          THEN JStr("No matching SEVS entry found. Share the variant or model code "
                    \o "and build year/month and I'll re-check.")
          ELSE JStr("No exact match. Closest options: "
                    \o Join([j \in 1..shown |-> AltText(alts[j])], ", ")
                    \o ". Share the variant/model code and build year/month."))
C11_Witness ==
  /\ composed # Absent
  /\ EnvelopeOk(TRUE)
  /\ DataEmpty
  /\ Len(TopAlternates) = 6
  /\ composed = JStr("No exact match. Closest options: RZ JZA80, SZ JZA70, ? GA70, GT, RZ-S JZA81"
                     \o ". Share the variant/model code and build year/month.")

\* the envelope has ok=true and exactly one row, an object
SingleRowEnvelope ==
  /\ EnvelopeOk(TRUE)
  /\ DataAtLeast(1)
  /\ Len(envelope.f["data"].a) = 1
  /\ envelope.f["data"].a[1].t = "obj"
TheRow == envelope.f["data"].a[1]
\* key k of the row is missing or null
RowLacks(k) == k \notin DOMAIN TheRow.f \/ TheRow.f[k] = JNull
\* eligible=true and no optional field present
BareEligibleRow ==
  /\ "eligible" \in DOMAIN TheRow.f
  /\ TheRow.f["eligible"] = JBool(TRUE)
  /\ DOMAIN TheRow.f \cap {"eligibility_reason", "build_date_match", "days_to_expiry",
                           "expiring_soon", "model_report", "alternates"} = {}
  /\ RowLacks("expires_on")

\* C12: for an envelope with ok=true and exactly one row that has eligible=true and
\* no optional field present, compose_reply returns exactly "**Eligible**" with no
\* further lines.
C12_ExactlyEligible ==
  (composed # Absent /\ SingleRowEnvelope /\ BareEligibleRow) => composed = JStr("**Eligible**")

\* C12 as amended: the reply is "**Eligible**" followed by the one line "No valid
\* model report on record; compliance not currently possible.", and nothing else.
C12_EligibleThenNoReport ==
  (composed # Absent /\ SingleRowEnvelope /\ BareEligibleRow) =>
    composed = JStr("**Eligible**\n"
                    \o "No valid model report on record; compliance not currently possible.")
C12_Witness ==
  /\ composed # Absent
  /\ SingleRowEnvelope
  /\ BareEligibleRow
  /\ TheRow.f["make"] = JStr("Toyota")
  /\ Lines(composed.s) = <<"**Eligible**", NoReportLine>>

\* sub occurs in s
Contains(s, sub) ==
  \E j \in 1..(Len(s) - Len(sub) + 1) : SubSeq(s, j, j + Len(sub) - 1) = sub
\* l is one of the lines of s
HasLine(s, l) == \E j \in 1..Len(Lines(s)) : Lines(s)[j] = l
\* key k of object v is present and is the boolean b
IsBool(v, k, b) == v.t = "obj" /\ k \in DOMAIN v.f /\ v.f[k] = JBool(b)
RowReport == IF "model_report" \in DOMAIN TheRow.f THEN TheRow.f["model_report"] ELSE JNull

\* C13: for every single-row envelope with ok=true, eligible=false, expiring_soon
\* absent and model_report.has_report=false, the reply contains "Not eligible", does
\* not contain "Flag: expiring soon", and contains "No valid model report on record;
\* compliance not currently possible."; more generally, in the single-row block the
\* flag line appears only when expiring_soon is true and the fixed no-report line
\* appears exactly when has_report is not true.
C13_FlagAndReportLines ==
  (composed # Absent /\ SingleRowEnvelope) =>
    /\ composed.t = "str"
    /\ (/\ IsBool(TheRow, "eligible", FALSE)
        /\ "expiring_soon" \notin DOMAIN TheRow.f
        /\ IsBool(RowReport, "has_report", FALSE))
       => /\ Contains(composed.s, "Not eligible")
          /\ ~Contains(composed.s, "Flag: expiring soon")
          /\ Contains(composed.s,
                      "No valid model report on record; compliance not currently possible.")
    /\ HasLine(composed.s, "Flag: expiring soon. Start compliance steps ASAP.")
         => IsBool(TheRow, "expiring_soon", TRUE)
    /\ HasLine(composed.s, "No valid model report on record; compliance not currently possible.")
         <=> ~IsBool(RowReport, "has_report", TRUE)
C13_Witness ==
  /\ composed # Absent
  /\ SingleRowEnvelope
  /\ IsBool(TheRow, "eligible", FALSE)
  /\ "expiring_soon" \notin DOMAIN TheRow.f
  /\ IsBool(RowReport, "has_report", FALSE)
  /\ Lines(composed.s) = <<"**Not eligible**", NoReportLine>>

\* the build_date_match object of the row, empty when missing or null
RowWindow ==
  IF HasObj(TheRow, "build_date_match") THEN TheRow.f["build_date_match"] ELSE EmptyObj
\* bound k of the window is present: the key exists and is not null
BoundPresent(k) == k \in DOMAIN RowWindow.f /\ RowWindow.f[k] # JNull
BoundText(k) == IF BoundPresent(k) THEN RowWindow.f[k].s ELSE "?"
IsWindowLine(l) == Len(l) >= 14 /\ SubSeq(l, 1, 14) = "Build window: "

\* C18: in the single-row block the build-window line is emitted exactly when
\* build_date_match.from or .to is present, and an absent bound (key missing or
\* null) is rendered as "?" while the present bound is rendered as its value.
C18_BuildWindowLine ==
  (composed # Absent /\ SingleRowEnvelope /\ composed.t = "str") =>
    SelectSeq(Lines(composed.s), IsWindowLine) =
      (IF BoundPresent("from") \/ BoundPresent("to")
       THEN <<"Build window: " \o BoundText("from") \o " -> " \o BoundText("to") \o ".">>
       ELSE <<>>)

\* the decimal text of a challenge of digits without its leading zeros
RECURSIVE StripZeros(_)
StripZeros(s) ==
  IF Len(s) > 1 /\ SubSeq(s, 1, 1) = "0" THEN StripZeros(SubSeq(s, 2, Len(s))) ELSE s

TokenMatches == request.token = JStr(config.VERIFY_TOKEN)
AllDigits == request.challenge.t = "str" /\ isdigit(request.challenge.s)
\* the integer the challenge spells
NumericChallenge == verified.t = "num" /\ ToString(verified.n) = StripZeros(request.challenge.s)
\* the challenge as it came, the empty string for one that was not given
RawChallenge ==
  verified = (IF request.challenge = JNull THEN JStr("") ELSE request.challenge)
Forbidden == verified = JStr("forbidden")

Locals(i) ==
  <<pc[i], body[i], from_number[i], text[i], message[i], args[i], reply_text[i], response[i],
    raised[i], oracle_calls[i], backend_calls[i], send_calls[i], log[i]>>

\* the reply that follows from the invocation's own oracle answer and own backend result
OwnReply(i) ==
  IF message[i].kind = "tool"
  THEN LET data == backend_calls[i][1].result
           reply == compose_reply(data)
       IN IF IsExc(data) THEN JStr("I couldn't reach the SEVS service. " \o data.msg)
          ELSE IF IsExc(reply) THEN JStr("I couldn't reach the SEVS service. " \o reply.msg)
          ELSE reply
  ELSE IF Truthy(message[i].content) THEN message[i].content
       ELSE JStr("Tell me the make/model/variant or model code, and build year/month.")

\* every call an invocation made carries what its own payload and its own responses give
OwnInputsOnly ==
  \A i \in Invocations :
    /\ \A k \in 1..Len(oracle_calls[i]) : oracle_calls[i][k] = ExtractText(FirstMessage(i))
    /\ \A k \in 1..Len(backend_calls[i]) :
         backend_calls[i][k].query = json_loads(message[i].arguments)
    /\ \A k \in 1..Len(send_calls[i]) :
         /\ send_calls[i][k].to = FirstMessage(i).f["from"]
         /\ send_calls[i][k].body = OwnReply(i)

\* a step of the handler touches what one invocation holds and nothing of any other
OneInvocationSteps ==
  \E i \in Invocations : \A j \in Invocations \ {i} : Locals(j)' = Locals(j)

\* C15: under any interleaving of invocations, the recipient and text of each reply (and
\* what the oracle and the backend are asked) follow from that invocation's own payload
\* and own oracle and backend responses, every step changes the state of one invocation
\* only, and the configuration read at startup never changes.
C15_InvocationsIsolated ==
  /\ []OwnInputsOnly
  /\ [][OneInvocationSteps]_vars
  /\ [][config' = config]_vars

\* two invocations interleaved, both having sent, to different recipients
C15_Witness ==
  /\ send_calls[1] # <<>> /\ send_calls[2] # <<>>
  /\ send_calls[1][1].to # send_calls[2][1].to
  /\ message[1].kind # message[2].kind
  /\ pc[1] = "Done" /\ pc[2] = "Done"

\* the moves of one invocation through Idle -> Ingested -> Extracted ->
\* {Composed | DirectAnswer} -> Done, an early end leading straight to Done
HandlerMoves ==
  { <<"Idle", "Ingested">>, <<"Ingested", "Extracted">>, <<"Ingested", "DirectAnswer">>,
    <<"Extracted", "Composed">>, <<"Composed", "Done">>, <<"DirectAnswer", "Done">>,
    <<"Idle", "Done">>, <<"Ingested", "Done">> }

\* each external call made at most once, and none without the calls it comes after
AttemptOnceInOrder ==
  \A i \in Invocations :
    /\ Len(oracle_calls[i]) <= 1 /\ Len(backend_calls[i]) <= 1 /\ Len(send_calls[i]) <= 1
    /\ pc[i] \in {"Idle", "Ingested"} => NoExternalCalls(i)
    /\ backend_calls[i] # <<>> => (oracle_calls[i] # <<>> /\ message[i].kind = "tool")
    /\ send_calls[i] # <<>> =>
         /\ oracle_calls[i] # <<>>
         /\ reply_text[i] = send_calls[i][1].body /\ reply_text[i].t = "str"
         /\ (message[i].kind = "tool" /\ backend_calls[i] # <<>>)
              \/ (message[i].kind = "direct" /\ backend_calls[i] = <<>>)

\* a step moves an invocation along the chain, and a call is made only while no later
\* call has been made; the record of a call made is never touched again
MovesInOrder ==
  \A i \in Invocations :
    /\ pc'[i] # pc[i] => <<pc[i], pc'[i]>> \in HandlerMoves
    /\ oracle_calls'[i] # oracle_calls[i] =>
         (pc[i] = "Ingested" /\ backend_calls'[i] = <<>> /\ send_calls'[i] = <<>>)
    /\ backend_calls'[i] # backend_calls[i] =>
         (pc[i] = "Extracted" /\ oracle_calls'[i] = oracle_calls[i] /\ send_calls'[i] = <<>>)
    /\ send_calls'[i] # send_calls[i] =>
         /\ pc[i] \in {"Composed", "DirectAnswer"} /\ pc'[i] = "Done"
         /\ oracle_calls'[i] = oracle_calls[i] /\ backend_calls'[i] = backend_calls[i]

\* C16: within one invocation the oracle call, the backend query and the send are each
\* attempted at most once and in that order along Idle -> Ingested -> Extracted ->
\* {Composed | DirectAnswer} -> Done: the backend is queried only after the oracle elected
\* the tool call, and a send happens only once a reply text is composed or a direct answer
\* obtained.
C16_AttemptOnceInOrder == []AttemptOnceInOrder /\ [][MovesInOrder]_vars

\* an invocation that made all three calls, the backend query having failed
C16_Witness ==
  \E i \in Invocations :
    /\ pc[i] = "Done"
    /\ Len(oracle_calls[i]) = 1 /\ Len(backend_calls[i]) = 1 /\ Len(send_calls[i]) = 1
    /\ IsExc(backend_calls[i][1].result)

\* C17: every invocation that has begun eventually reaches Done, whichever of its steps
\* fails, provided each external call eventually returns or fails.
C17_EventuallyDone ==
  \A i \in Invocations : (pc[i] # "Idle") ~> (pc[i] = "Done")

\* one invocation ended by an exception of the oracle call, another ended after its
\* backend query and its send both failed
C17_Witness ==
  \E i, j \in Invocations :
    /\ pc[i] = "Done" /\ oracle_calls[i] # <<>> /\ raised[i].t = "exc"
    /\ pc[j] = "Done" /\ backend_calls[j] # <<>> /\ IsExc(backend_calls[j][1].result)
    /\ send_calls[j] # <<>> /\ send_calls[j][1].failed

====
